---- MODULE Spec2Model ----
(***************************************************************************)
(* A model of @cloud-copilot/log (src/log.ts): the StandardLogger class,   *)
(* the exported isLogLevel predicate and the logAt function that builds    *)
(* one JSON entry per call and writes it to a console method.              *)
(*                                                                         *)
(* JavaScript values are tagged records.  An object carries its prototype  *)
(* (proto), its own enumerable properties p and its own non-enumerable     *)
(* properties np, both as sequences of <<key, value>> pairs in insertion   *)
(* order.  The values the model draws are JSON-serialisable data,          *)
(* undefined and Error objects; cyclic objects, BigInt, Symbol, functions, *)
(* accessors and toJSON methods are outside the model.                     *)
(***************************************************************************)
EXTENDS Integers, Sequences, FiniteSets, TLC

---------------------------------------------------------------------------
(* Bounds *)

\* longest argument list of a log call in SpecLogAt
MaxArgs == 3
\* number of API calls made on one logger in Spec
MaxCalls == 3
\* latest instant of the clock, in ms after the epoch
MaxNow == 1

---------------------------------------------------------------------------
(* JavaScript values *)

Undefined == [t |-> "undefined"]
Null == [t |-> "null"]
Str(s) == [t |-> "string", s |-> s]
Num(n) == [t |-> "number", n |-> n]
Bool(b) == [t |-> "boolean", b |-> b]
\* { k: v, ... }
Obj(p) == [t |-> "object", proto |-> "Object", p |-> p, np |-> <<>>]
\* [e1, e2, ...]: the elements are own enumerable properties "0", "1", ...
Arr(elems) ==
  [t |-> "object", proto |-> "Array",
   p |-> [i \in 1..Len(elems) |-> <<ToString(i - 1), elems[i]>>], np |-> <<>>]
\* new Error(message): message and stack are own, non-enumerable
NewError(message) ==
  [t |-> "object", proto |-> "Error", p |-> <<>>,
   np |-> << <<"stack", Str("Error: " \o message \o " at")>>,
             <<"message", Str(message)>> >>]

\* typeof v
TypeOf(v) == IF v.t = "null" THEN "object" ELSE v.t

IsObject(v) == v.t = "object"

\* v instanceof Error
InstanceOfError(v) == IsObject(v) /\ v.proto = "Error"

\* ToBoolean(v)
Truthy(v) ==
  CASE v.t = "undefined" -> FALSE
    [] v.t = "null" -> FALSE
    [] v.t = "string" -> v.s # ""
    [] v.t = "number" -> v.n # 0
    [] v.t = "boolean" -> v.b
    [] OTHER -> TRUE

---------------------------------------------------------------------------
(* Property lists *)

HasKey(pairs, k) == \E i \in 1..Len(pairs) : pairs[i][1] = k

Lookup(pairs, k) ==
  IF HasKey(pairs, k)
  THEN pairs[CHOOSE i \in 1..Len(pairs) : pairs[i][1] = k][2]
  ELSE Undefined

\* obj[k] = v: an existing key keeps its position, a new key is appended
SetProp(pairs, k, v) ==
  IF HasKey(pairs, k)
  THEN [i \in 1..Len(pairs) |-> IF pairs[i][1] = k THEN <<k, v>> ELSE pairs[i]]
  ELSE Append(pairs, <<k, v>>)

Keys(pairs) == {pairs[i][1] : i \in 1..Len(pairs)}

\* properties inherited from the prototype chain (those the logger reads)
ProtoProps(v) ==
  IF v.proto = "Error"
  THEN << <<"name", Str("Error")>>, <<"message", Str("")>> >>
  ELSE <<>>

\* k in v, for an object v
In(k, v) == HasKey(v.p, k) \/ HasKey(v.np, k) \/ HasKey(ProtoProps(v), k)

\* v[k], for an object v
Get(v, k) ==
  IF HasKey(v.p, k) THEN Lookup(v.p, k)
  ELSE IF HasKey(v.np, k) THEN Lookup(v.np, k)
  ELSE Lookup(ProtoProps(v), k)

\* Object.assign(target, source): the own enumerable properties of source
RECURSIVE AssignFrom(_, _, _)
AssignFrom(target, props, i) ==
  IF i > Len(props) THEN target
  ELSE AssignFrom(SetProp(target, props[i][1], props[i][2]), props, i + 1)

ObjectAssign(target, source) == AssignFrom(target, source.p, 1)

---------------------------------------------------------------------------
(* String conversion *)

RECURSIVE Join(_, _)
\* Array.prototype.join on a sequence of strings
Join(strs, sep) ==
  IF Len(strs) = 0 THEN ""
  ELSE IF Len(strs) = 1 THEN strs[1]
  ELSE strs[1] \o sep \o Join(Tail(strs), sep)

RECURSIVE CanString(_)
\* String(v) / ToPropertyKey(v) completes without a TypeError
CanString(v) ==
  IF ~IsObject(v) THEN TRUE
  ELSE IF v.proto = "null" THEN FALSE
  ELSE IF v.proto = "Array"
       THEN \A i \in 1..Len(v.p) : CanString(v.p[i][2])
  ELSE TRUE

RECURSIVE JSString(_)
\* String(v), for v with CanString(v)
JSString(v) ==
  CASE v.t = "string" -> v.s
    [] v.t = "number" -> ToString(v.n)
    [] v.t = "boolean" -> IF v.b THEN "true" ELSE "false"
    [] v.t = "undefined" -> "undefined"
    [] v.t = "null" -> "null"
    [] OTHER ->
       IF v.proto = "Array"
       THEN Join([i \in 1..Len(v.p) |->
                    IF v.p[i][2].t \in {"undefined", "null"} THEN ""
                    ELSE JSString(v.p[i][2])], ",")
       ELSE IF v.proto = "Error"
       THEN JSString(Get(v, "name")) \o ": " \o JSString(Get(v, "message"))
       ELSE "[object Object]"

TypeErrorMessage == "Cannot convert object to primitive value"

---------------------------------------------------------------------------
(* JSON.stringify *)

Quote(s) == "\"" \o s \o "\""

RECURSIVE JSONstringify(_)
\* JSON.stringify(v) on strings without characters that need escaping;
\* "" stands for the result undefined
JSONstringify(v) ==
  CASE v.t = "string" -> Quote(v.s)
    [] v.t = "number" -> ToString(v.n)
    [] v.t = "boolean" -> IF v.b THEN "true" ELSE "false"
    [] v.t = "null" -> "null"
    [] v.t = "undefined" -> ""
    [] OTHER ->
       IF v.proto = "Array"
       THEN "[" \o Join([i \in 1..Len(v.p) |->
                           IF v.p[i][2].t = "undefined" THEN "null"
                           ELSE JSONstringify(v.p[i][2])], ",") \o "]"
       ELSE LET kept == SelectSeq(v.p, LAMBDA kv : kv[2].t # "undefined")
            IN "{" \o Join([i \in 1..Len(kept) |->
                              Quote(kept[i][1]) \o ":" \o JSONstringify(kept[i][2])],
                           ",") \o "}"

---------------------------------------------------------------------------
(* Levels *)

LogLevels == <<"error", "warn", "info", "debug", "trace">>

LogLevelNames == {LogLevels[i] : i \in 1..Len(LogLevels)}

LEVELS == [error |-> 0, warn |-> 1, info |-> 2, debug |-> 3, trace |-> 4]

\* LEVELS.hasOwnProperty(v): v is converted to a property key first
hasOwnProperty(v) == JSString(v) \in DOMAIN LEVELS

\* isLogLevel(level) ends in a TypeError
isLogLevelThrows(level) == level.t # "undefined" /\ ~CanString(level)

\* the value isLogLevel(level) returns when it returns
isLogLevel(level) == level.t # "undefined" /\ hasOwnProperty(level)

---------------------------------------------------------------------------
(* StandardLogger *)

\* new StandardLogger(initialLogLevel)
constructor(initialLogLevel) ==
  IF Truthy(initialLogLevel) /\ isLogLevelThrows(initialLogLevel)
  THEN [throws |-> TRUE, message |-> TypeErrorMessage, logLevel |-> Undefined]
  ELSE IF Truthy(initialLogLevel) /\ isLogLevel(initialLogLevel)
  THEN [throws |-> FALSE, message |-> "", logLevel |-> initialLogLevel]
  ELSE [throws |-> FALSE, message |-> "", logLevel |-> Str("warn")]

\* this.setLogLevel(level), on a logger whose logLevel is current
setLogLevel(current, level) ==
  IF isLogLevelThrows(level)
  THEN [throws |-> TRUE, message |-> TypeErrorMessage, logLevel |-> current]
  ELSE IF ~isLogLevel(level)
  THEN [throws |-> TRUE, message |-> "Invalid log level: " \o JSString(level),
        logLevel |-> current]
  ELSE [throws |-> FALSE, message |-> "", logLevel |-> level]

---------------------------------------------------------------------------
(* logAt and its helpers *)

\* a.stack || a.message, turned to text by join
StackOrMessage(a) ==
  LET x == IF Truthy(Get(a, "stack")) THEN Get(a, "stack") ELSE Get(a, "message")
  IN IF x.t \in {"undefined", "null"} THEN "" ELSE JSString(x)

\* the text of one argument in serializeArgs
serializeArg(a) ==
  IF TypeOf(a) = "string" THEN a.s
  ELSE IF InstanceOfError(a) THEN StackOrMessage(a)
  ELSE IF a.t = "undefined" THEN "undefined"
  ELSE JSONstringify(a)

\* serializeArgs joining with the empty string
serializeArgsNoSeparator(args) ==
  Join([i \in 1..Len(args) |-> serializeArg(args[i])], "")

serializeArgs(args) ==
  Join([i \in 1..Len(args) |-> serializeArg(args[i])], " ")

isError(obj) ==
  \/ InstanceOfError(obj)
  \/ (TypeOf(obj) = "object" /\ obj.t # "null"
      /\ In("message", obj) /\ In("name", obj))

\* mapError(e) ends in a TypeError: String(message) on a bare object
mapErrorThrows(e) ==
  LET message == Get(e, "message")
  IN TypeOf(message) # "string"
     /\ message.t \notin {"undefined", "null"}
     /\ ~CanString(message)

mapError(e) ==
  LET name == Get(e, "name")
      message == Get(e, "message")
      stack == Get(e, "stack")
      code == Get(e, "code")
  IN Obj(<< <<"name", IF TypeOf(name) = "string" THEN name ELSE Str("Error")>>,
            <<"message",
              IF TypeOf(message) = "string" THEN message
              ELSE IF message.t \in {"undefined", "null"} THEN Str("")
              ELSE Str(JSString(message))>>,
            <<"stack", IF TypeOf(stack) = "string" THEN stack ELSE Undefined>> >>
         \o (IF code.t # "undefined" THEN << <<"code", code>> >> ELSE <<>>))

\* new Date(ms).toISOString(), for instants within the first minute of the epoch
toISOString(ms) ==
  LET sec == ms \div 1000
      frac == ms % 1000
      Pad2(n) == IF n < 10 THEN "0" \o ToString(n) ELSE ToString(n)
      Pad3(n) == IF n < 10 THEN "00" \o ToString(n)
                 ELSE IF n < 100 THEN "0" \o ToString(n) ELSE ToString(n)
  IN "1970-01-01T00:00:" \o Pad2(sec) \o "." \o Pad3(frac) \o "Z"

\* LEVELS[v]: v is converted to a property key first
Rank(v) == LEVELS[JSString(v)]

\* Gated with >= for >: a call at the threshold's own rank is dropped
GatedAtEqualRank(currentLevel, level) ==
  /\ CanString(currentLevel)
  /\ JSString(currentLevel) \in DOMAIN LEVELS
  /\ Rank(Str(level)) >= Rank(currentLevel)

\* LEVELS[level] > LEVELS[currentLevel]; a comparison with undefined is false
Gated(currentLevel, level) ==
  /\ CanString(currentLevel)
  /\ JSString(currentLevel) \in DOMAIN LEVELS
  /\ Rank(Str(level)) > Rank(currentLevel)

baseEntry(level, ms) ==
  << <<"timestamp", Str(toISOString(ms))>>, <<"level", Str(level)>> >>

\* objectArgs without the test for error-like objects
objectArgsWithErrors(args) ==
  SelectSeq(args, LAMBDA a : TypeOf(a) = "object" /\ a.t # "null")

objectArgs(args) ==
  SelectSeq(args, LAMBDA a : TypeOf(a) = "object" /\ a.t # "null" /\ ~isError(a))

messageArgs(args) ==
  SelectSeq(args, LAMBDA a : TypeOf(a) # "object" \/ a.t = "null")

errorArgs(args) == SelectSeq(args, isError)

RECURSIVE mergeObjectsFirstWins(_, _)
\* mergeObjects assigning the objects from the last to the first
mergeObjectsFirstWins(entry, objs) ==
  IF Len(objs) = 0 THEN entry
  ELSE mergeObjectsFirstWins(ObjectAssign(entry, objs[Len(objs)]),
                             SubSeq(objs, 1, Len(objs) - 1))

RECURSIVE mergeObjects(_, _)
\* for (const obj of objs) Object.assign(entry, obj)
mergeObjects(entry, objs) ==
  IF Len(objs) = 0 THEN entry
  ELSE mergeObjects(ObjectAssign(entry, Head(objs)), Tail(objs))

\* if (msg) entry.message = msg
withMessage(entry, msg) ==
  IF msg # "" THEN SetProp(entry, "message", Str(msg)) ELSE entry

\* the error fields of the entry
withErrors(entry, errs) ==
  IF Len(errs) > 0
  THEN LET e1 == SetProp(entry, "error", mapError(errs[1]))
           e2 == SetProp(e1, "error_count", Num(Len(errs)))
       IN IF Len(errs) > 1
          THEN SetProp(e2, "errors", Arr([i \in 1..Len(errs) |-> mapError(errs[i])]))
          ELSE e2
  ELSE entry

\* the entry logAt builds for a call that is not gated
buildEntry(level, args, ms) ==
  withErrors(
    withMessage(mergeObjects(baseEntry(level, ms), objectArgs(args)),
                serializeArgs(messageArgs(args))),
    errorArgs(args))

\* consoleMethod without the case for info
consoleMethodNoInfoCase(level) ==
  CASE level = "error" -> "error"
    [] level = "warn" -> "warn"
    [] OTHER -> "log"

\* the console method of the switch
consoleMethod(level) ==
  CASE level = "error" -> "error"
    [] level = "warn" -> "warn"
    [] level = "info" -> "info"
    [] OTHER -> "log"

\* logAt(currentLevel, level, args) at instant ms
logAt(currentLevel, level, args, ms) ==
  IF Gated(currentLevel, level)
  THEN [emitted |-> FALSE, throws |-> FALSE, entry |-> <<>>, line |-> "",
        method |-> ""]
  ELSE IF \E i \in 1..Len(errorArgs(args)) : mapErrorThrows(errorArgs(args)[i])
  THEN [emitted |-> FALSE, throws |-> TRUE, entry |-> <<>>, line |-> "",
        method |-> ""]
  ELSE LET entry == buildEntry(level, args, ms)
       IN [emitted |-> TRUE, throws |-> FALSE, entry |-> entry,
           line |-> JSONstringify(Obj(entry)), method |-> consoleMethod(level)]

---------------------------------------------------------------------------
(* Inputs *)

\* arguments given to the constructor, setLogLevel and isLogLevel
LevelInputs ==
  {Str(l) : l \in LogLevelNames}
  \cup {Str("invalid"), Str("ERROR"), Str(""), Undefined, Null, Num(123),
        Bool(TRUE), Obj(<<>>), Arr(<<>>), Arr(<<Str("info")>>),
        Arr(<<Str("info"), Str("warn")>>)}

\* argument lists of the log calls of Spec
CallArgs == {<<>>, <<Str("test message")>>}

\* { userId: 123, action: 'login' }
CtxUser == Obj(<< <<"userId", Num(123)>>, <<"action", Str("login")>> >>)
\* { userId: 7, level: 'custom', timestamp: undefined }
CtxBase ==
  Obj(<< <<"userId", Num(7)>>, <<"level", Str("custom")>>, <<"timestamp", Undefined>> >>)
\* { message: 'ctx', error: 'ctxerr', errors: 'ctxerrs' }
CtxReserved ==
  Obj(<< <<"message", Str("ctx")>>, <<"error", Str("ctxerr")>>,
         <<"errors", Str("ctxerrs")>> >>)
\* { name: 5, message: null, stack: 1, code: 42 }
ErrorLikeObj ==
  Obj(<< <<"name", Num(5)>>, <<"message", Null>>, <<"stack", Num(1)>>,
         <<"code", Num(42)>> >>)

\* arguments of the log calls of SpecLogAt: message fragments, context
\* objects, an array, an Error and a malformed error-like object
ArgValues ==
  {Str("mixed"), Str(""), Undefined, Null,
   CtxUser, CtxBase, CtxReserved, Arr(<<Str("x")>>),
   NewError("first"), ErrorLikeObj}

RECURSIVE SeqsUpTo(_, _)
\* the sequences over S of length at most n
SeqsUpTo(S, n) ==
  IF n = 0 THEN {<<>>}
  ELSE LET shorter == SeqsUpTo(S, n - 1)
       IN shorter \cup {Append(q, x) : q \in shorter, x \in S}

---------------------------------------------------------------------------
(* State *)

VARIABLES
  pc,         \* "new", "live", "dead" (constructor threw); "pending", "done"
  logLevel,   \* this.logLevel
  console,    \* the lines written with console.error, .warn, .info and .log
  now,        \* the clock, ms after the epoch
  calls,      \* number of API calls made so far
  op,         \* the last call: its name and arguments
  result,     \* the outcome of the last call
  entry,      \* the entry the last log call built
  threshold,  \* the level the logger was last given successfully
  nonGated    \* per level, the calls made at a rank not above the threshold's

vars == <<pc, logLevel, console, now, calls, op, result, entry, threshold, nonGated>>

NoResult == [throws |-> FALSE, message |-> "", value |-> Undefined, emitted |-> FALSE]

EmptyConsole == [error |-> <<>>, warn |-> <<>>, info |-> <<>>, log |-> <<>>]

Init ==
  /\ pc = "new"
  /\ logLevel = Undefined
  /\ console = EmptyConsole
  /\ now = 0
  /\ calls = 0
  /\ op = [name |-> "none", arg |-> Undefined, args |-> <<>>]
  /\ result = NoResult
  /\ entry = <<>>
  /\ threshold = Undefined
  /\ nonGated = [l \in LogLevelNames |-> 0]

---------------------------------------------------------------------------
(* Operations *)

\* new StandardLogger(x)
Construct ==
  \E x \in LevelInputs :
    LET r == constructor(x)
    IN /\ pc = "new"
       /\ pc' = IF r.throws THEN "dead" ELSE "live"
       /\ logLevel' = r.logLevel
       /\ threshold' = r.logLevel
       /\ op' = [name |-> "constructor", arg |-> x, args |-> <<>>]
       /\ result' = [NoResult EXCEPT !.throws = r.throws, !.message = r.message]
       /\ UNCHANGED <<console, now, calls, entry, nonGated>>

\* logger.setLogLevel(x)
SetLogLevel ==
  \E x \in LevelInputs :
    LET r == setLogLevel(logLevel, x)
    IN /\ pc = "live"
       /\ calls < MaxCalls
       /\ calls' = calls + 1
       /\ logLevel' = r.logLevel
       /\ threshold' = IF r.throws THEN threshold ELSE x
       /\ op' = [name |-> "setLogLevel", arg |-> x, args |-> <<>>]
       /\ result' = [NoResult EXCEPT !.throws = r.throws, !.message = r.message]
       /\ UNCHANGED <<pc, console, now, entry, nonGated>>

\* isLogLevel(x)
IsLogLevel ==
  \E x \in LevelInputs :
    /\ pc = "live"
    /\ calls < MaxCalls
    /\ calls' = calls + 1
    /\ op' = [name |-> "isLogLevel", arg |-> x, args |-> <<>>]
    /\ result' = IF isLogLevelThrows(x)
                 THEN [NoResult EXCEPT !.throws = TRUE, !.message = TypeErrorMessage]
                 ELSE [NoResult EXCEPT !.value = Bool(isLogLevel(x))]
    /\ UNCHANGED <<pc, logLevel, console, now, entry, threshold, nonGated>>

\* the effect of logger[level](...args) at instant ms
Effect(level, args, ms) ==
  LET r == logAt(logLevel, level, args, ms)
  IN /\ now' = ms
     /\ op' = [name |-> level, arg |-> Undefined, args |-> args]
     /\ result' = [NoResult EXCEPT !.throws = r.throws,
                                   !.message = IF r.throws THEN TypeErrorMessage ELSE "",
                                   !.emitted = r.emitted]
     /\ entry' = r.entry
     /\ console' = IF r.emitted
                   THEN [console EXCEPT ![r.method] = Append(@, r.line)]
                   ELSE console
     /\ nonGated' = IF Rank(Str(level)) <= Rank(threshold)
                    THEN [nonGated EXCEPT ![level] = @ + 1]
                    ELSE nonGated
     /\ UNCHANGED <<logLevel, threshold>>

\* logger[level](...args), as one of the calls on a live logger
LogCall(level) ==
  \E args \in CallArgs, ms \in now..MaxNow :
    /\ pc = "live"
    /\ calls < MaxCalls
    /\ calls' = calls + 1
    /\ Effect(level, args, ms)
    /\ UNCHANGED pc

error == LogCall("error")
warn == LogCall("warn")
info == LogCall("info")
debug == LogCall("debug")
trace == LogCall("trace")

Next ==
  \/ Construct
  \/ SetLogLevel
  \/ IsLogLevel
  \/ error
  \/ warn
  \/ info
  \/ debug
  \/ trace

Spec == Init /\ [][Next]_vars

---------------------------------------------------------------------------
(* One log call on arbitrary arguments *)

InitLogAt ==
  /\ pc = "pending"
  /\ logLevel \in {Str(l) : l \in LogLevelNames}
  /\ threshold = logLevel
  /\ console = EmptyConsole
  /\ now = MaxNow
  /\ calls = 0
  /\ op \in [name : LogLevelNames, arg : {Undefined}, args : SeqsUpTo(ArgValues, MaxArgs)]
  /\ result = NoResult
  /\ entry = <<>>
  /\ nonGated = [l \in LogLevelNames |-> 0]

\* the pending call runs
RunLogAt ==
  /\ pc = "pending"
  /\ pc' = "done"
  /\ calls' = calls + 1
  /\ Effect(op.name, op.args, now)

NextLogAt == RunLogAt

SpecLogAt == InitLogAt /\ [][NextLogAt]_vars

---------------------------------------------------------------------------
(* Vocabulary of the properties *)

\* v is one of the five level names
ValidLevel(v) == v.t = "string" /\ v.s \in LogLevelNames

\* rank of a level name: its position in LogLevels, from 0
RankOf(l) == CHOOSE r \in 0..(Len(LogLevels) - 1) : LogLevels[r + 1] = l

\* the destination of each level
Stream == [error |-> "error", warn |-> "warn", info |-> "info",
           debug |-> "log", trace |-> "log"]

LinesWritten ==
  Len(console.error) + Len(console.warn) + Len(console.info) + Len(console.log)

\* the step is a log call at level L
IsLogStep(L) == op'.name = L /\ calls' = calls + 1

\* the last call was a log call that wrote its entry
Emitted == op.name \in LogLevelNames /\ result.emitted

\* an Error instance, or a non-null object with both name and message
ErrorLike(v) ==
  v.t = "object" /\ (v.proto = "Error" \/ (In("name", v) /\ In("message", v)))

ErrorLikeArgs(args) == SelectSeq(args, ErrorLike)

ContextArgs(args) == SelectSeq(args, LAMBDA v : v.t = "object" /\ ~ErrorLike(v))

FragmentArgs(args) == SelectSeq(args, LAMBDA v : v.t # "object")

NonErrorArgs(args) == SelectSeq(args, LAMBDA v : ~ErrorLike(v))

\* whether the entry has the field, and its value
Field(e, k) == <<HasKey(e, k), Lookup(e, k)>>

---------------------------------------------------------------------------
(* Level gating and the logger's threshold *)

C2_InvalidSetLevelRaisesAndKeepsThreshold ==
  [][(op'.name = "setLogLevel" /\ calls' = calls + 1 /\ ~ValidLevel(op'.arg)) =>
       /\ result'.throws
       /\ result'.message = "Invalid log level: " \o JSString(op'.arg)
       /\ \A L \in LogLevelNames : Gated(logLevel', L) <=> Gated(logLevel, L)]_vars

\* C3: construction never raises; the threshold is x for a level name x and
\* warn for any other or absent argument.
C3_ConstructionFixesThreshold ==
  op.name = "constructor" =>
    /\ ~result.throws
    /\ LET T == IF ValidLevel(op.arg) THEN op.arg.s ELSE "warn"
       IN \A L \in LogLevelNames : ~Gated(logLevel, L) <=> RankOf(L) <= RankOf(T)

C7_IsLogLevelOnlyForLevelNames ==
  op.name = "isLogLevel" =>
    /\ ~result.throws
    /\ result.value = Bool(ValidLevel(op.arg))

---------------------------------------------------------------------------
(* The entry of a call *)

\* the text of a message fragment: a string as it is, undefined as
\* "undefined", anything else JSON-encoded
FragmentText(v) ==
  IF v.t = "string" THEN v.s
  ELSE IF v.t = "undefined" THEN "undefined"
  ELSE JSONstringify(v)

\* the fragments of a call joined with single spaces, in argument order
JoinedFragments(args) ==
  LET frags == FragmentArgs(args)
  IN Join([i \in 1..Len(frags) |-> FragmentText(frags[i])], " ")

\* the context objects of a call that have k as an own key
ContextsWith(args, k) ==
  {i \in 1..Len(ContextArgs(args)) : HasKey(ContextArgs(args)[i].p, k)}

\* the value of k in the last context object that has it
LastContextValue(args, k) ==
  LET last == CHOOSE i \in ContextsWith(args, k) :
                \A j \in ContextsWith(args, k) : j <= i
  IN Lookup(ContextArgs(args)[last].p, k)

ContextKeys(args) ==
  UNION {Keys(ContextArgs(args)[i].p) : i \in 1..Len(ContextArgs(args))}

\* the fields logAt assigns after the merge of the context objects
AssignedAfterMerge(args) ==
  (IF JoinedFragments(args) # "" THEN {"message"} ELSE {})
  \cup (IF Len(ErrorLikeArgs(args)) > 0 THEN {"error", "error_count"} ELSE {})
  \cup (IF Len(ErrorLikeArgs(args)) > 1 THEN {"errors"} ELSE {})

\* C4: every emitted entry has the ISO-8601 instant of the call as timestamp
\* and the name of the method called, one of the five level names, as level,
\* whatever the arguments.
C4_EntryHasTimestampAndLevel ==
  Emitted =>
    /\ Field(entry, "timestamp") = <<TRUE, Str(toISOString(now))>>
    /\ Field(entry, "level") = <<TRUE, Str(op.name)>>
    /\ op.name \in LogLevelNames

\* C5: an emitted entry of a call with n >= 1 error-like arguments has as
\* errors the array of the n normalized errors, in argument order.
C5_ErrorsArrayHoldsEveryError ==
  LET errs == ErrorLikeArgs(op.args)
  IN (Emitted /\ Len(errs) >= 1) =>
       Field(entry, "errors") =
         <<TRUE, Arr([i \in 1..Len(errs) |-> mapError(errs[i])])>>

\* C8: the message field of an emitted entry is the one the call has without
\* its error-like arguments, and its error fields are the ones the call has
\* with its error-like arguments alone.
C8_ErrorsAndMessageDoNotMix ==
  Emitted =>
    /\ Field(entry, "message") =
         Field(buildEntry(op.name, NonErrorArgs(op.args), now), "message")
    /\ \A k \in {"error", "error_count", "errors"} :
         Field(entry, k) = Field(buildEntry(op.name, ErrorLikeArgs(op.args), now), k)

\* C9 as stated: the message field is the joined fragments, and the entry has
\* a message field only if the joined string is non-empty.
C9_MessageIsJoinedFragments_Original ==
  Emitted =>
    IF JoinedFragments(op.args) # ""
    THEN Field(entry, "message") = <<TRUE, Str(JoinedFragments(op.args))>>
    ELSE ~HasKey(entry, "message")

\* C9: when the joined fragments are non-empty the message field is that
\* string; when they are empty the entry has a message field only if a context
\* object has an own key message, and then holds the value of the last one.
C9_MessageIsJoinedFragments ==
  Emitted =>
    IF JoinedFragments(op.args) # ""
    THEN Field(entry, "message") = <<TRUE, Str(JoinedFragments(op.args))>>
    ELSE IF ContextsWith(op.args, "message") = {}
    THEN ~HasKey(entry, "message")
    ELSE Field(entry, "message") = <<TRUE, LastContextValue(op.args, "message")>>

\* undefined and null rendered and joined in argument order
C9_Witness ==
  /\ Emitted
  /\ op.args = <<Undefined, Null>>
  /\ Field(entry, "message") = <<TRUE, Str("undefined null")>>

\* C10 as stated: every key of a context object is in the entry, and a key of
\* several context objects has the value of the last of them.
C10_LaterContextWins_Original ==
  Emitted =>
    \A k \in ContextKeys(op.args) :
      /\ HasKey(entry, k)
      /\ Cardinality(ContextsWith(op.args, k)) > 1 =>
           Lookup(entry, k) = LastContextValue(op.args, k)

\* C10: every key of a context object is in the entry, and a key of several
\* context objects has the value of the last of them, unless it is a field
\* logAt assigns after the merge (message, error, error_count, errors).
C10_LaterContextWins ==
  Emitted =>
    \A k \in ContextKeys(op.args) :
      /\ HasKey(entry, k)
      /\ (Cardinality(ContextsWith(op.args, k)) > 1
          /\ k \notin AssignedAfterMerge(op.args)) =>
           Lookup(entry, k) = LastContextValue(op.args, k)

\* userId of the second context object over the first, action kept
C10_Witness ==
  /\ Emitted
  /\ op.args = <<CtxUser, CtxBase>>
  /\ Field(entry, "userId") = <<TRUE, Num(7)>>
  /\ Field(entry, "action") = <<TRUE, Str("login")>>

---------------------------------------------------------------------------
(* Classification of the arguments *)

\* v is an element of the sequence g
InGroup(g, v) == \E j \in 1..Len(g) : g[j] = v

\* C11: every argument of a call is in exactly one of the three groups;
\* Error instances and non-null objects with name and message are the
\* error-like group, the other non-null objects and arrays the context
\* objects, primitives and null the message fragments, each group in the
\* order of the arguments.
C11_ClassificationIsAnOrderedPartition ==
  Emitted =>
    LET objs == objectArgs(op.args)
        msgs == messageArgs(op.args)
        errs == errorArgs(op.args)
    IN /\ \A i \in 1..Len(op.args) :
            LET a == op.args[i]
            IN /\ InGroup(objs, a) \/ InGroup(msgs, a) \/ InGroup(errs, a)
               /\ ~(InGroup(objs, a) /\ InGroup(msgs, a))
               /\ ~(InGroup(objs, a) /\ InGroup(errs, a))
               /\ ~(InGroup(msgs, a) /\ InGroup(errs, a))
       /\ Len(objs) + Len(msgs) + Len(errs) = Len(op.args)
       /\ errs = ErrorLikeArgs(op.args)
       /\ objs = ContextArgs(op.args)
       /\ msgs = FragmentArgs(op.args)

\* null as fragment, an object with name and message as error, an array as
\* context object, all in one call
C11_Witness ==
  /\ Emitted
  /\ op.args = <<Null, ErrorLikeObj, Arr(<<Str("x")>>)>>
  /\ Field(entry, "message") = <<TRUE, Str("null")>>
  /\ Field(entry, "error_count") = <<TRUE, Num(1)>>
  /\ Field(entry, "0") = <<TRUE, Str("x")>>
  /\ ~HasKey(entry, "name")

---------------------------------------------------------------------------
(* One log call on one error-like argument *)

\* Object.create(null): no toString and no valueOf
BareObj == [t |-> "object", proto |-> "null", p |-> <<>>, np |-> <<>>]

\* the property k with value v, or no property
Optional(k, values) == {<<>>} \cup {<< <<k, v>> >> : v \in values}

\* objects with name and message, well-formed and malformed, and Errors
ErrorLikeInputs ==
  {Obj(<< <<"name", name>>, <<"message", message>> >> \o stack \o code) :
     name \in {Str("TypeError"), Num(5), Undefined},
     message \in {Str("boom"), Null, Undefined, Num(7), Obj(<<>>),
                  Arr(<<Str("a"), Str("b")>>), BareObj},
     stack \in Optional("stack", {Str("TypeError: boom at f"), Num(1)}),
     code \in Optional("code", {Str("ENOENT"), Num(42), Null})}
  \cup {NewError("first"),
        [NewError("coded") EXCEPT !.p = << <<"code", Str("ENOENT")>> >>],
        [NewError("renamed") EXCEPT !.p = << <<"name", Num(5)>> >>]}

InitMapError ==
  /\ pc = "pending"
  /\ logLevel \in {Str(l) : l \in LogLevelNames}
  /\ threshold = logLevel
  /\ console = EmptyConsole
  /\ now = MaxNow
  /\ calls = 0
  /\ op \in [name : LogLevelNames, arg : {Undefined},
             args : {<<e>> : e \in ErrorLikeInputs}]
  /\ result = NoResult
  /\ entry = <<>>
  /\ nonGated = [l \in LogLevelNames |-> 0]

SpecMapError == InitMapError /\ [][NextLogAt]_vars

---------------------------------------------------------------------------
(* Normalized errors *)

\* the call has run and its rank is not above the threshold's
RanNonGated ==
  pc = "done" /\ op.name \in LogLevelNames /\ nonGated[op.name] = 1

\* C12: normalizing an error-like value never raises; the result has the
\* input's name if that is a string and "Error" otherwise, the input's message
\* if that is a string and otherwise its string coercion, "" for null and
\* undefined, the input's stack if that is a string and none otherwise, and
\* the input's code if it has one and none otherwise.
C12_NormalizedErrorShape ==
  (RanNonGated /\ Len(ErrorLikeArgs(op.args)) > 0) =>
    /\ ~result.throws
    /\ LET e == ErrorLikeArgs(op.args)[1]
           n == Lookup(entry, "error")
           name == Get(e, "name")
           message == Get(e, "message")
           stack == Get(e, "stack")
       IN /\ IsObject(n)
          /\ Lookup(n.p, "name") = (IF name.t = "string" THEN name ELSE Str("Error"))
          /\ Lookup(n.p, "message") =
               (IF message.t = "string" THEN message
                ELSE IF message.t \in {"undefined", "null"} THEN Str("")
                ELSE Str(JSString(message)))
          /\ Lookup(n.p, "stack") = (IF stack.t = "string" THEN stack ELSE Undefined)
          /\ IF In("code", e)
             THEN Field(n.p, "code") = <<TRUE, Get(e, "code")>>
             ELSE ~HasKey(n.p, "code")

---------------------------------------------------------------------------
(* The threshold as state *)

\* C13: every log call, gated or not, leaves the threshold as it was, and the
\* threshold of a constructed logger is always one of the five level names.
C13_ThresholdIsALevelNameAndLogsKeepIt ==
  /\ [](pc = "live" => ValidLevel(logLevel))
  /\ [][\A L \in LogLevelNames : IsLogStep(L) => logLevel' = logLevel]_vars

====
